---- MODULE Spec2Model ----
(***************************************************************************)
(* Model of task1/serial_demo.c: the polled driver of the AT91RM9200 debug *)
(* unit (DBGU) and the tiny_printf formatter built on it.                  *)
(*                                                                         *)
(* One step of the model is one register access or one local control step  *)
(* of the C code.  The hardware runs beside the driver: it sets the ready  *)
(* bits of the status register asynchronously and clears them when the     *)
(* holding registers are accessed.                                         *)
(*                                                                         *)
(* Characters are their ASCII codes.  A C string is the sequence of its    *)
(* non-zero characters; the terminator is read as 0 one past the end.      *)
(***************************************************************************)
EXTENDS Integers, Sequences, FiniteSets, TLC

(***************************************************************************)
(* Bounds of the model.                                                    *)
(***************************************************************************)
MaxStrLen == 2
MaxFmtLen == 3
MaxHexVal == 300

(***************************************************************************)
(* Program constants.                                                      *)
(***************************************************************************)
CR_RSTRX == 4
CR_RSTTX == 8
CR_RXEN == 16
CR_TXEN == 64
SR_RXRDY == 1
SR_TXRDY == 2
MR_PAR_NONE == 2048
MCK == 60000000
BAUD == 115200

SIZEOF_ULONG == 4    \* sizeof(unsigned long) on the 32-bit ARM target
X_BUF_SIZE == 9      \* char b[9] of %x

NUL == 0
LF == 10
CR == 13
PERCENT == 37

VARIABLES
    DBGU_CR,     \* last value written to the control register
    DBGU_MR,     \* mode register
    DBGU_SR,     \* status register (owned by the hardware)
    DBGU_RHR,    \* receive holding register
    DBGU_THR,    \* transmit holding register
    DBGU_BRGR,   \* baud rate generator register
    stack,       \* control stack: the program position of every active call
    c,           \* dbgu_putc: parameter c
    s,           \* dbgu_puts: the string s points into
    si,          \* dbgu_puts: position of s in that string (1 = first char)
    fmt,         \* tiny_printf: format string
    p,           \* tiny_printf: position of p in fmt
    args,        \* tiny_printf: the variadic arguments
    ap,          \* tiny_printf: number of arguments va_arg has consumed
    v,           \* tiny_printf: the value of a %x / %p argument
    ret,         \* value returned by the last dbgu_getc
    op,          \* the operation the caller invoked after dbgu_init
    log,         \* register accesses of the running operation, in order
    sent         \* characters passed to dbgu_putc by the running operation

regs == <<DBGU_CR, DBGU_MR, DBGU_SR, DBGU_RHR, DBGU_THR, DBGU_BRGR>>
putsv == <<s, si>>
pfv == <<fmt, p, args, ap, v>>
vars == <<DBGU_CR, DBGU_MR, DBGU_SR, DBGU_RHR, DBGU_THR, DBGU_BRGR,
          stack, c, s, si, fmt, p, args, ap, v, ret, op, log, sent>>

(***************************************************************************)
(* Machine arithmetic.                                                     *)
(***************************************************************************)
RECURSIVE BitAnd(_, _)
BitAnd(x, y) ==
    IF x = 0 \/ y = 0 THEN 0
    ELSE (IF x % 2 = 1 /\ y % 2 = 1 THEN 1 ELSE 0) + 2 * BitAnd(x \div 2, y \div 2)

RECURSIVE BitOr(_, _)
BitOr(x, y) ==
    IF x = 0 THEN y
    ELSE IF y = 0 THEN x
    ELSE (IF x % 2 = 1 \/ y % 2 = 1 THEN 1 ELSE 0) + 2 * BitOr(x \div 2, y \div 2)

\* x with the bits of mask cleared
BitClear(x, mask) == x - BitAnd(x, mask)

\* variant: the conversion to unsigned char left out
UChar_wide(x) == x

\* conversion to unsigned char
UChar(x) == x % 256

\* conversion to a 32-bit unsigned value: x mod 2^32, taken in two 16-bit
\* halves so that no intermediate value exceeds the checker's integers
U32(x) == (x % 65536) + 65536 * ((x \div 65536) % 65536)

(***************************************************************************)
(* C strings and pointers to them.                                         *)
(***************************************************************************)
NullPtr == [null |-> TRUE, chars |-> <<>>]
Str(chars) == [null |-> FALSE, chars |-> chars]

\* *(s + i - 1): the character at position i, the terminator one past the end
CharAt(chars, i) == IF i <= Len(chars) THEN chars[i] ELSE NUL

SeqsUpTo(S, n) == UNION {[1..k -> S] : k \in 0..n}

(***************************************************************************)
(* The register access log.  A run of status polls is kept as its last     *)
(* read, so that a busy-wait does not grow the log.                        *)
(***************************************************************************)
Wr(r, x) == [k |-> "W", r |-> r, x |-> x]
Rd(r, x) == [k |-> "R", r |-> r, x |-> x]

LogPoll(l, x) ==
    IF l # <<>> /\ l[Len(l)].k = "R" /\ l[Len(l)].r = "SR"
    THEN [l EXCEPT ![Len(l)] = Rd("SR", x)]
    ELSE Append(l, Rd("SR", x))

(***************************************************************************)
(* Control stack.                                                          *)
(***************************************************************************)
Top == stack[Len(stack)]
Goto(l) == stack' = [stack EXCEPT ![Len(stack)] = l]
Call(retTo, entry) == stack' = [stack EXCEPT ![Len(stack)] = retTo] \o <<entry>>
Return == stack' = SubSeq(stack, 1, Len(stack) - 1)

Init ==
    /\ DBGU_CR = 0 /\ DBGU_MR = 0 /\ DBGU_SR = 0
    /\ DBGU_RHR = 0 /\ DBGU_THR = 0 /\ DBGU_BRGR = 0
    /\ stack = <<"start">>
    /\ c = 0
    /\ s = NullPtr /\ si = 1
    /\ fmt = <<>> /\ p = 1 /\ args = <<>> /\ ap = 0 /\ v = 0
    /\ ret = 0
    /\ op = "none"
    /\ log = <<>>
    /\ sent = <<>>

(***************************************************************************)
(* Hardware.                                                               *)
(***************************************************************************)
TxReady(sr) == BitAnd(sr, SR_TXRDY) # 0
RxReady(sr) == BitAnd(sr, SR_RXRDY) # 0

\* words the receiver may latch; one is wider than a byte
RxWords == {65, 10, 321}

\* the transmitter has shifted its character out: TXRDY goes up
HwTxReady ==
    /\ ~TxReady(DBGU_SR)
    /\ DBGU_SR' = BitOr(DBGU_SR, SR_TXRDY)
    /\ UNCHANGED <<DBGU_CR, DBGU_MR, DBGU_RHR, DBGU_THR, DBGU_BRGR>>
    /\ UNCHANGED <<stack, c, putsv, pfv, ret, op, log, sent>>

\* a character has been received: it is latched in RHR and RXRDY goes up
HwRx ==
    /\ ~RxReady(DBGU_SR)
    /\ \E w \in RxWords : DBGU_RHR' = w
    /\ DBGU_SR' = BitOr(DBGU_SR, SR_RXRDY)
    /\ UNCHANGED <<DBGU_CR, DBGU_MR, DBGU_THR, DBGU_BRGR>>
    /\ UNCHANGED <<stack, c, putsv, pfv, ret, op, log, sent>>

\* a store to THR: the character is taken and TXRDY drops
WriteTHR(x) ==
    /\ DBGU_THR' = x
    /\ DBGU_SR' = BitClear(DBGU_SR, SR_TXRDY)
    /\ log' = Append(log, Wr("THR", x))
    /\ UNCHANGED <<DBGU_CR, DBGU_MR, DBGU_RHR, DBGU_BRGR>>

(***************************************************************************)
(* dbgu_init                                                               *)
(***************************************************************************)
\* variant: the divisor rounded to nearest instead of truncated
BaudDivisor_rounded == (U32(MCK) + U32(8 * BAUD)) \div U32(16 * BAUD)

BaudDivisor == U32(MCK) \div U32(16 * BAUD)

\* variant: only the receiver is reset by the first write
dbgu_init_rst_split ==
    /\ Top = "init_rst"
    /\ DBGU_CR' = CR_RSTRX
    /\ log' = Append(log, Wr("CR", DBGU_CR'))
    /\ Goto("init_mr")
    /\ UNCHANGED <<DBGU_MR, DBGU_SR, DBGU_RHR, DBGU_THR, DBGU_BRGR>>
    /\ UNCHANGED <<c, putsv, pfv, ret, op, sent>>

dbgu_init_rst ==
    /\ Top = "init_rst"
    /\ DBGU_CR' = BitOr(CR_RSTRX, CR_RSTTX)
    /\ log' = Append(log, Wr("CR", DBGU_CR'))
    /\ Goto("init_mr")
    /\ UNCHANGED <<DBGU_MR, DBGU_SR, DBGU_RHR, DBGU_THR, DBGU_BRGR>>
    /\ UNCHANGED <<c, putsv, pfv, ret, op, sent>>

dbgu_init_mr ==
    /\ Top = "init_mr"
    /\ DBGU_MR' = MR_PAR_NONE
    /\ log' = Append(log, Wr("MR", DBGU_MR'))
    /\ Goto("init_brgr")
    /\ UNCHANGED <<DBGU_CR, DBGU_SR, DBGU_RHR, DBGU_THR, DBGU_BRGR>>
    /\ UNCHANGED <<c, putsv, pfv, ret, op, sent>>

dbgu_init_brgr ==
    /\ Top = "init_brgr"
    /\ DBGU_BRGR' = BaudDivisor
    /\ log' = Append(log, Wr("BRGR", DBGU_BRGR'))
    /\ Goto("init_en")
    /\ UNCHANGED <<DBGU_CR, DBGU_MR, DBGU_SR, DBGU_RHR, DBGU_THR>>
    /\ UNCHANGED <<c, putsv, pfv, ret, op, sent>>

dbgu_init_en ==
    /\ Top = "init_en"
    /\ DBGU_CR' = BitOr(CR_RXEN, CR_TXEN)
    /\ log' = Append(log, Wr("CR", DBGU_CR'))
    /\ Return
    /\ UNCHANGED <<DBGU_MR, DBGU_SR, DBGU_RHR, DBGU_THR, DBGU_BRGR>>
    /\ UNCHANGED <<c, putsv, pfv, ret, op, sent>>

(***************************************************************************)
(* dbgu_putc                                                               *)
(***************************************************************************)
\* entering dbgu_putc(ch) from a caller that resumes at retTo
Enter_putc(retTo, ch) ==
    /\ Call(retTo, "putc_entry")
    /\ c' = ch
    /\ sent' = Append(sent, ch)

\* variant: a newline goes out alone
dbgu_putc_entry_nocr ==
    /\ Top = "putc_entry"
    /\ Goto("putc_poll")
    /\ UNCHANGED <<regs, c, putsv, pfv, ret, op, log, sent>>

\* variant: no carriage return when the byte sent last was one
dbgu_putc_entry_smart ==
    /\ Top = "putc_entry"
    /\ Goto(IF c = LF /\ DBGU_THR # CR THEN "putc_poll_cr" ELSE "putc_poll")
    /\ UNCHANGED <<regs, c, putsv, pfv, ret, op, log, sent>>

\* if (c == '\n')
dbgu_putc_entry ==
    /\ Top = "putc_entry"
    /\ Goto(IF c = LF THEN "putc_poll_cr" ELSE "putc_poll")
    /\ UNCHANGED <<regs, c, putsv, pfv, ret, op, log, sent>>

\* while(!(DBGU_SR & SR_TXRDY)){}  before the carriage return
dbgu_putc_poll_cr ==
    /\ Top = "putc_poll_cr"
    /\ log' = LogPoll(log, DBGU_SR)
    /\ Goto(IF TxReady(DBGU_SR) THEN "putc_wr_cr" ELSE "putc_poll_cr")
    /\ UNCHANGED <<regs, c, putsv, pfv, ret, op, sent>>

\* variant: no second wait after the carriage return
dbgu_putc_wr_cr_nowait ==
    /\ Top = "putc_wr_cr"
    /\ WriteTHR(CR)
    /\ Goto("putc_wr")
    /\ UNCHANGED <<c, putsv, pfv, ret, op, sent>>

\* DBGU_THR = '\r'
dbgu_putc_wr_cr ==
    /\ Top = "putc_wr_cr"
    /\ WriteTHR(CR)
    /\ Goto("putc_poll")
    /\ UNCHANGED <<c, putsv, pfv, ret, op, sent>>

\* variant: the wait with its test inverted
dbgu_putc_poll_inverted ==
    /\ Top = "putc_poll"
    /\ log' = LogPoll(log, DBGU_SR)
    /\ Goto(IF TxReady(DBGU_SR) THEN "putc_poll" ELSE "putc_wr")
    /\ UNCHANGED <<regs, c, putsv, pfv, ret, op, sent>>

\* variant: the status is read once and not waited on
dbgu_putc_poll_nowait ==
    /\ Top = "putc_poll"
    /\ log' = LogPoll(log, DBGU_SR)
    /\ Goto("putc_wr")
    /\ UNCHANGED <<regs, c, putsv, pfv, ret, op, sent>>

\* while(!(DBGU_SR & SR_TXRDY)){}  before the character
dbgu_putc_poll ==
    /\ Top = "putc_poll"
    /\ log' = LogPoll(log, DBGU_SR)
    /\ Goto(IF TxReady(DBGU_SR) THEN "putc_wr" ELSE "putc_poll")
    /\ UNCHANGED <<regs, c, putsv, pfv, ret, op, sent>>

\* DBGU_THR = c, and return
dbgu_putc_wr ==
    /\ Top = "putc_wr"
    /\ WriteTHR(c)
    /\ Return
    /\ UNCHANGED <<c, putsv, pfv, ret, op, sent>>

(***************************************************************************)
(* dbgu_getc                                                               *)
(***************************************************************************)
\* variant: the wait gives up after one poll
dbgu_getc_poll_timeout ==
    /\ Top = "getc_poll"
    /\ log' = LogPoll(log, DBGU_SR)
    /\ Goto("getc_rd")
    /\ UNCHANGED <<regs, c, putsv, pfv, ret, op, sent>>

\* while(!(DBGU_SR & SR_RXRDY)){}
dbgu_getc_poll ==
    /\ Top = "getc_poll"
    /\ log' = LogPoll(log, DBGU_SR)
    /\ Goto(IF RxReady(DBGU_SR) THEN "getc_rd" ELSE "getc_poll")
    /\ UNCHANGED <<regs, c, putsv, pfv, ret, op, sent>>

\* variant: the receiver is reset after every character
dbgu_getc_rd_rstrx ==
    /\ Top = "getc_rd"
    /\ ret' = UChar(DBGU_RHR)
    /\ log' = log \o <<Rd("RHR", DBGU_RHR), Wr("CR", CR_RSTRX)>>
    /\ DBGU_SR' = BitClear(DBGU_SR, SR_RXRDY)
    /\ DBGU_CR' = CR_RSTRX
    /\ Return
    /\ UNCHANGED <<DBGU_MR, DBGU_RHR, DBGU_THR, DBGU_BRGR>>
    /\ UNCHANGED <<c, putsv, pfv, op, sent>>

\* return (unsigned char)DBGU_RHR; the load takes the character: RXRDY drops
dbgu_getc_rd ==
    /\ Top = "getc_rd"
    /\ ret' = UChar(DBGU_RHR)
    /\ log' = Append(log, Rd("RHR", DBGU_RHR))
    /\ DBGU_SR' = BitClear(DBGU_SR, SR_RXRDY)
    /\ Return
    /\ UNCHANGED <<DBGU_CR, DBGU_MR, DBGU_RHR, DBGU_THR, DBGU_BRGR>>
    /\ UNCHANGED <<c, putsv, pfv, op, sent>>

(***************************************************************************)
(* dbgu_puts                                                               *)
(***************************************************************************)
\* entering dbgu_puts(str) from a caller that resumes at retTo
Enter_puts(retTo, str) ==
    /\ Call(retTo, "puts_entry")
    /\ s' = str
    /\ si' = 1

\* if (!s) return;
dbgu_puts_entry ==
    /\ Top = "puts_entry"
    /\ IF s.null THEN Return ELSE Goto("puts_loop")
    /\ UNCHANGED <<regs, c, putsv, pfv, ret, op, log, sent>>

\* variant: s advanced twice per character
dbgu_puts_next_skip ==
    /\ Top = "puts_loop"
    /\ CharAt(s.chars, si) # NUL
    /\ Enter_putc("puts_loop", UChar(CharAt(s.chars, si)))
    /\ si' = si + 2
    /\ UNCHANGED <<regs, s, pfv, ret, op, log>>

\* while(*s) dbgu_putc((unsigned char)*s++);  one more character
dbgu_puts_next ==
    /\ Top = "puts_loop"
    /\ CharAt(s.chars, si) # NUL
    /\ Enter_putc("puts_loop", UChar(CharAt(s.chars, si)))
    /\ si' = si + 1
    /\ UNCHANGED <<regs, s, pfv, ret, op, log>>

\* while(*s) ...: the terminator ends the loop
dbgu_puts_end ==
    /\ Top = "puts_loop"
    /\ CharAt(s.chars, si) = NUL
    /\ Return
    /\ UNCHANGED <<regs, c, putsv, pfv, ret, op, log, sent>>

(***************************************************************************)
(* utoa_hex                                                                *)
(***************************************************************************)
\* static const char* d="0123456789abcdef";
d == <<48, 49, 50, 51, 52, 53, 54, 55, 56, 57, 97, 98, 99, 100, 101, 102>>

\* variant: three bits taken per digit
RECURSIVE utoa_tmp_octal(_)
utoa_tmp_octal(x) ==
    IF x = 0 THEN <<>>
    ELSE <<d[BitAnd(x, 7) + 1]>> \o utoa_tmp_octal(x \div 8)

\* while(v){ tmp[i++] = d[v & 0xFu]; v >>= 4; }  the digits, lowest first
RECURSIVE utoa_tmp(_)
utoa_tmp(x) ==
    IF x = 0 THEN <<>>
    ELSE <<d[BitAnd(x, 15) + 1]>> \o utoa_tmp(x \div 16)

\* char tmp[2*sizeof(unsigned long)], and b of %p with one more entry
TMP_SIZE == 2 * SIZEOF_ULONG
P_BUF_SIZE == 2 * SIZEOF_ULONG + 1

\* variant: no special case for 0
utoa_hex_nozero(x) ==
    LET tmp == utoa_tmp(x)
        i == Len(tmp)
    IN  [j \in 1..i |-> tmp[i + 1 - j]]

\* variant: the digits copied out without reversing them
utoa_hex_unreversed(x) ==
    IF x = 0 THEN <<48>> ELSE utoa_tmp(x)

\* the characters utoa_hex(x, buf) leaves in buf before the terminator
utoa_hex(x) ==
    IF x = 0 THEN <<48>>
    ELSE LET tmp == utoa_tmp(x)
             i == Len(tmp)
         IN  [j \in 1..i |-> tmp[i + 1 - j]]

(***************************************************************************)
(* tiny_printf                                                             *)
(***************************************************************************)
\* a variadic argument: an integer (or address) or a string pointer
IntArg(n) == [n |-> n, str |-> NullPtr]
StrArg(q) == [n |-> 0, str |-> q]

\* variant: another substitute text
NullText_nil == <<40, 110, 105, 108, 41>>     \* "(nil)"
NullText == <<40, 110, 117, 108, 108, 41>>    \* "(null)"
HexPrefix == <<48, 120>>                      \* "0x"

\* variant: va_arg that does not advance
NextArg_first == args[1]

\* va_arg(ap, ...): the next argument
NextArg == args[ap + 1]

\* for(const char* p=fmt; *p; ...): the terminator ends the scan
tiny_printf_end ==
    /\ Top = "pf_loop"
    /\ CharAt(fmt, p) = NUL
    /\ Return
    /\ UNCHANGED <<regs, c, putsv, pfv, ret, op, log, sent>>

\* if(*p!='%'){ dbgu_putc((unsigned char)*p); continue; }
tiny_printf_ordinary ==
    /\ Top = "pf_loop"
    /\ CharAt(fmt, p) # NUL
    /\ CharAt(fmt, p) # PERCENT
    /\ Enter_putc("pf_inc", UChar(CharAt(fmt, p)))
    /\ UNCHANGED <<regs, putsv, pfv, ret, op, log>>

\* ++p after a '%'
tiny_printf_percent ==
    /\ Top = "pf_loop"
    /\ CharAt(fmt, p) = PERCENT
    /\ p' = p + 1
    /\ Goto("pf_dir")
    /\ UNCHANGED <<regs, c, putsv, fmt, args, ap, v, ret, op, log, sent>>

\* variant: continue instead of break after a trailing '%'
tiny_printf_dangling_continue ==
    /\ Top = "pf_dir"
    /\ CharAt(fmt, p) = NUL
    /\ Enter_putc("pf_inc", PERCENT)
    /\ UNCHANGED <<regs, putsv, pfv, ret, op, log>>

\* variant: no test for the terminator after a '%'
tiny_printf_dangling_nocheck ==
    /\ Top = "pf_dir"
    /\ CharAt(fmt, p) = NUL
    /\ Enter_putc("pf_other", PERCENT)
    /\ UNCHANGED <<regs, putsv, pfv, ret, op, log>>

\* if(!*p){ dbgu_putc('%'); break; }
tiny_printf_dangling ==
    /\ Top = "pf_dir"
    /\ CharAt(fmt, p) = NUL
    /\ Enter_putc("pf_break", PERCENT)
    /\ UNCHANGED <<regs, putsv, pfv, ret, op, log>>

\* variant: %% handled by the branch for unknown directives
tiny_printf_pct_fallthrough ==
    /\ Top = "pf_dir"
    /\ CharAt(fmt, p) = PERCENT
    /\ Enter_putc("pf_other", PERCENT)
    /\ UNCHANGED <<regs, putsv, pfv, ret, op, log>>

\* if(*p=='%'){ dbgu_putc('%'); }
tiny_printf_pct ==
    /\ Top = "pf_dir"
    /\ CharAt(fmt, p) = PERCENT
    /\ Enter_putc("pf_inc", PERCENT)
    /\ UNCHANGED <<regs, putsv, pfv, ret, op, log>>

\* else if(*p=='c'){ dbgu_putc((unsigned char)va_arg(ap,int)); }
tiny_printf_c ==
    /\ Top = "pf_dir"
    /\ CharAt(fmt, p) = 99
    /\ ap' = ap + 1
    /\ Enter_putc("pf_inc", UChar(NextArg.n))
    /\ UNCHANGED <<regs, putsv, fmt, p, args, v, ret, op, log>>

\* else if(*p=='s'){ s=va_arg(ap,const char*); if(!s)s="(null)"; dbgu_puts(s); }
tiny_printf_s ==
    /\ Top = "pf_dir"
    /\ CharAt(fmt, p) = 115
    /\ ap' = ap + 1
    /\ Enter_puts("pf_inc", IF NextArg.str.null THEN Str(NullText) ELSE NextArg.str)
    /\ UNCHANGED <<regs, c, fmt, p, args, v, ret, op, log, sent>>

\* else if(*p=='x'){ unsigned int v=va_arg(ap,unsigned int); char b[9];
\*                   utoa_hex(v,b); dbgu_puts(b); }
tiny_printf_x ==
    /\ Top = "pf_dir"
    /\ CharAt(fmt, p) = 120
    /\ ap' = ap + 1
    /\ v' = U32(NextArg.n)
    /\ Enter_puts("pf_inc", Str(utoa_hex(v')))
    /\ UNCHANGED <<regs, c, fmt, p, args, ret, op, log, sent>>

\* else if(*p=='p'){ void* pv=va_arg(ap,void*); unsigned long v=...;
\*                   dbgu_puts("0x"); ...
tiny_printf_p ==
    /\ Top = "pf_dir"
    /\ CharAt(fmt, p) = 112
    /\ ap' = ap + 1
    /\ v' = U32(NextArg.n)
    /\ Enter_puts("pf_p_hex", Str(HexPrefix))
    /\ UNCHANGED <<regs, c, fmt, p, args, ret, op, log, sent>>

\*                   ... utoa_hex(v,b); dbgu_puts(b); }
tiny_printf_p_hex ==
    /\ Top = "pf_p_hex"
    /\ Enter_puts("pf_inc", Str(utoa_hex(v)))
    /\ UNCHANGED <<regs, c, pfv, ret, op, log, sent>>

\* else { dbgu_putc('%'); ...
tiny_printf_other ==
    /\ Top = "pf_dir"
    /\ CharAt(fmt, p) \notin {NUL, PERCENT, 99, 115, 120, 112}
    /\ Enter_putc("pf_other", PERCENT)
    /\ UNCHANGED <<regs, putsv, pfv, ret, op, log>>

\*        ... dbgu_putc((unsigned char)*p); }
tiny_printf_other_ch ==
    /\ Top = "pf_other"
    /\ Enter_putc("pf_inc", UChar(CharAt(fmt, p)))
    /\ UNCHANGED <<regs, putsv, pfv, ret, op, log>>

\* ++p of the for loop
tiny_printf_inc ==
    /\ Top = "pf_inc"
    /\ p' = p + 1
    /\ Goto("pf_loop")
    /\ UNCHANGED <<regs, c, putsv, fmt, args, ap, v, ret, op, log, sent>>

\* break; va_end(ap); return 0;
tiny_printf_break ==
    /\ Top = "pf_break"
    /\ Return
    /\ UNCHANGED <<regs, c, putsv, pfv, ret, op, log, sent>>

(***************************************************************************)
(* The caller: dbgu_init first, as main does, then one operation.          *)
(***************************************************************************)
PutcArgs == {LF, CR, 65}
StrChars == {LF, CR, 97}
\* the string main prints first
ReadyText == <<82, 101, 97, 100, 121, 13, 10>>    \* "Ready\r\n"
PutsArgs ==
    {NullPtr} \cup {Str(x) : x \in SeqsUpTo(StrChars, MaxStrLen)}
    \cup {Str(ReadyText)}

call_dbgu_init ==
    /\ Top = "start"
    /\ Call("ready", "init_rst")
    /\ UNCHANGED <<regs, c, putsv, pfv, ret, op, log, sent>>

call_dbgu_putc ==
    /\ Top = "ready"
    /\ op' = "putc"
    /\ log' = <<>>
    /\ \E ch \in PutcArgs :
        /\ Call("done", "putc_entry")
        /\ c' = ch
        /\ sent' = <<ch>>
    /\ UNCHANGED <<regs, putsv, pfv, ret>>

call_dbgu_getc ==
    /\ Top = "ready"
    /\ op' = "getc"
    /\ log' = <<>>
    /\ sent' = <<>>
    /\ Call("done", "getc_poll")
    /\ UNCHANGED <<regs, c, putsv, pfv, ret>>

call_dbgu_puts ==
    /\ Top = "ready"
    /\ op' = "puts"
    /\ log' = <<>>
    /\ sent' = <<>>
    /\ \E str \in PutsArgs : Enter_puts("done", str)
    /\ UNCHANGED <<regs, c, pfv, ret>>

\* format strings: every string over FmtChars up to MaxFmtLen, and some
\* with other characters or more directives
FmtChars == {LF, PERCENT, 99, 115, 120, 112}
FmtExamples ==
    {<<49, 48, 48, 37, 37>>,                       \* "100%%"
     <<97, 98, 99, 37>>,                           \* "abc%"
     <<37, 100>>, <<97, 37, 100, 98>>,             \* "%d", "a%db"
     <<37, 99, 37, 99>>,                           \* "%c%c"
     <<37, 99, 37, 115, 37, 120, 37, 112>>}        \* "%c%s%x%p"
Fmts == SeqsUpTo(FmtChars, MaxFmtLen) \cup FmtExamples

CArgs == {LF, 65, 266}
SArgs == {NullPtr, Str(<<>>), Str(<<LF>>), Str(<<97, 98>>)}
XArgs == {0, 255, 2147483647}
PArgs == {0, 48879}

\* the argument-consuming directives of a format, left to right: what a
\* caller has to supply arguments for
RECURSIVE Directives(_, _)
Directives(f, i) ==
    IF CharAt(f, i) = NUL THEN <<>>
    ELSE IF CharAt(f, i) # PERCENT THEN Directives(f, i + 1)
    ELSE IF CharAt(f, i + 1) = NUL THEN <<>>
    ELSE (IF CharAt(f, i + 1) \in {99, 115, 120, 112}
          THEN <<CharAt(f, i + 1)>> ELSE <<>>) \o Directives(f, i + 2)

ArgsOfKind(k) ==
    CASE k = 99 -> {IntArg(n) : n \in CArgs}
      [] k = 115 -> {StrArg(q) : q \in SArgs}
      [] k = 120 -> {IntArg(n) : n \in XArgs}
      [] k = 112 -> {IntArg(n) : n \in PArgs}

\* the argument lists whose types match the directives ks
RECURSIVE ArgLists(_)
ArgLists(ks) ==
    IF ks = <<>> THEN {<<>>}
    ELSE {<<a>> \o rest : a \in ArgsOfKind(Head(ks)), rest \in ArgLists(Tail(ks))}

call_tiny_printf ==
    /\ Top = "ready"
    /\ op' = "printf"
    /\ log' = <<>>
    /\ sent' = <<>>
    /\ \E f \in Fmts : \E as \in ArgLists(Directives(f, 1)) :
        /\ fmt' = f
        /\ args' = as
    /\ p' = 1
    /\ ap' = 0
    /\ Call("done", "pf_loop")
    /\ UNCHANGED <<regs, c, putsv, v, ret>>

Formatter ==
    \/ tiny_printf_end \/ tiny_printf_ordinary \/ tiny_printf_percent
    \/ tiny_printf_dangling \/ tiny_printf_pct \/ tiny_printf_c
    \/ tiny_printf_s \/ tiny_printf_x \/ tiny_printf_p \/ tiny_printf_p_hex
    \/ tiny_printf_other \/ tiny_printf_other_ch
    \/ tiny_printf_inc \/ tiny_printf_break

Driver ==
    \/ dbgu_init_rst \/ dbgu_init_mr \/ dbgu_init_brgr \/ dbgu_init_en
    \/ dbgu_putc_entry \/ dbgu_putc_poll_cr \/ dbgu_putc_wr_cr
    \/ dbgu_putc_poll \/ dbgu_putc_wr
    \/ dbgu_puts_entry \/ dbgu_puts_next \/ dbgu_puts_end

Next ==
    \/ call_dbgu_init
    \/ call_dbgu_putc \/ call_dbgu_getc \/ call_dbgu_puts
    \/ Driver
    \/ dbgu_getc_poll \/ dbgu_getc_rd
    \/ HwTxReady \/ HwRx

Spec == Init /\ [][Next]_vars

\* the formatter over the driver; nothing arrives on the receive line
NextFmt ==
    \/ call_dbgu_init
    \/ call_tiny_printf
    \/ Formatter
    \/ Driver
    \/ HwTxReady

SpecFmt == Init /\ [][NextFmt]_vars

(***************************************************************************)
(* main.  Its local c is the value dbgu_getc returned, kept in ret.        *)
(***************************************************************************)
\* "Received character: '%c'\r\n"
MainFmt1 ==
    <<82, 101, 99, 101, 105, 118, 101, 100, 32, 99, 104, 97, 114, 97,
      99, 116, 101, 114, 58, 32, 39, 37, 99, 39, 13, 10>>

\* "%%c='%c'  %%s=\"%s\"  %%x=%x  %%p=%p\r\n"
MainFmt2 ==
    <<37, 37, 99, 61, 39, 37, 99, 39, 32, 32, 37, 37, 115, 61, 34,
      37, 115, 34, 32, 32, 37, 37, 120, 61, 37, 120, 32, 32, 37, 37,
      112, 61, 37, 112, 13, 10>>

InitMain ==
    /\ DBGU_CR = 0 /\ DBGU_MR = 0 /\ DBGU_SR = 0
    /\ DBGU_RHR = 0 /\ DBGU_THR = 0 /\ DBGU_BRGR = 0
    /\ stack = <<"main_start">>
    /\ c = 0
    /\ s = NullPtr /\ si = 1
    /\ fmt = <<>> /\ p = 1 /\ args = <<>> /\ ap = 0 /\ v = 0
    /\ ret = 0
    /\ op = "none"
    /\ log = <<>>
    /\ sent = <<>>

\* variant: main without the call of dbgu_init
main_init_skipped ==
    /\ Top = "main_start"
    /\ Goto("main_puts")
    /\ UNCHANGED <<regs, c, putsv, pfv, ret, op, log, sent>>

\* dbgu_init();
main_init ==
    /\ Top = "main_start"
    /\ Call("main_puts", "init_rst")
    /\ UNCHANGED <<regs, c, putsv, pfv, ret, op, log, sent>>

\* dbgu_puts("Ready\r\n");  the log goes on from dbgu_init
main_puts ==
    /\ Top = "main_puts"
    /\ op' = "puts"
    /\ Enter_puts("main_getc", Str(ReadyText))
    /\ UNCHANGED <<regs, c, pfv, ret, log, sent>>

\* unsigned char c = dbgu_getc();
main_getc ==
    /\ Top = "main_getc"
    /\ op' = "getc"
    /\ log' = <<>>
    /\ sent' = <<>>
    /\ Call("main_pf1", "getc_poll")
    /\ UNCHANGED <<regs, c, putsv, pfv, ret>>

\* tiny_printf("Received character: '%c'\r\n", (int)c);
main_pf1 ==
    /\ Top = "main_pf1"
    /\ op' = "printf"
    /\ log' = <<>>
    /\ sent' = <<>>
    /\ fmt' = MainFmt1
    /\ args' = <<IntArg(ret)>>
    /\ p' = 1
    /\ ap' = 0
    /\ Call("main_pf2", "pf_loop")
    /\ UNCHANGED <<regs, c, putsv, v, ret>>

\* tiny_printf("%%c='%c'  %%s=\"%s\"  %%x=%x  %%p=%p\r\n", (int)c,
\*             (char[]){ (char)c, 0 }, (unsigned int)c, (void*)(uintptr_t)c);
main_pf2 ==
    /\ Top = "main_pf2"
    /\ op' = "printf"
    /\ log' = <<>>
    /\ sent' = <<>>
    /\ fmt' = MainFmt2
    /\ args' = <<IntArg(ret),
                 StrArg(Str(IF ret = NUL THEN <<>> ELSE <<ret>>)),
                 IntArg(ret),
                 IntArg(ret)>>
    /\ p' = 1
    /\ ap' = 0
    /\ Call("main_getc", "pf_loop")
    /\ UNCHANGED <<regs, c, putsv, v, ret>>

NextMain ==
    \/ main_init \/ main_puts \/ main_getc \/ main_pf1 \/ main_pf2
    \/ Driver
    \/ dbgu_getc_poll \/ dbgu_getc_rd
    \/ tiny_printf_end \/ tiny_printf_ordinary \/ tiny_printf_percent
    \/ tiny_printf_pct \/ tiny_printf_c \/ tiny_printf_s \/ tiny_printf_x
    \/ tiny_printf_p \/ tiny_printf_p_hex \/ tiny_printf_inc
    \/ HwTxReady \/ HwRx

SpecMain == InitMain /\ [][NextMain]_vars

(***************************************************************************)
(* A caller that goes on calling: dbgu_init once, then dbgu_putc,          *)
(* dbgu_getc, dbgu_puts and tiny_printf in any order, any number of times. *)
(* The registers carry over from one call to the next; the frame of a      *)
(* returned call is gone, and the log starts again with each call.         *)
(***************************************************************************)
SeqPutcArgs == {LF, 65}
SeqPutsArgs == {Str(<<LF, LF>>), Str(<<CR, LF>>)}
SeqPrintfCalls ==
    {[f |-> <<LF, 37, 99, 37, 115>>,               \* "\n%c%s"
      a |-> <<IntArg(LF), StrArg(Str(<<LF, LF>>))>>],
     [f |-> <<37, 115, 37, 120, 37, 112>>,         \* "%s%x%p"
      a |-> <<StrArg(NullPtr), IntArg(255), IntArg(0)>>],
     [f |-> <<37, 37, 37, 100, 37>>,               \* "%%%d%"
      a |-> <<>>]}

InitSeq ==
    /\ DBGU_CR = 0 /\ DBGU_MR = 0 /\ DBGU_SR = 0
    /\ DBGU_RHR = 0 /\ DBGU_THR = 0 /\ DBGU_BRGR = 0
    /\ stack = <<"seq_start">>
    /\ c = 0
    /\ s = NullPtr /\ si = 1
    /\ fmt = <<>> /\ p = 1 /\ args = <<>> /\ ap = 0 /\ v = 0
    /\ ret = 0
    /\ op = "none"
    /\ log = <<>>
    /\ sent = <<>>

seq_init ==
    /\ Top = "seq_start"
    /\ Call("seq_idle", "init_rst")
    /\ UNCHANGED <<regs, c, putsv, pfv, ret, op, log, sent>>

seq_putc ==
    /\ Top = "seq_idle"
    /\ op' = "putc"
    /\ log' = <<>>
    /\ \E ch \in SeqPutcArgs :
        /\ Call("seq_ret", "putc_entry")
        /\ c' = ch
        /\ sent' = <<ch>>
    /\ UNCHANGED <<regs, putsv, pfv, ret>>

seq_getc ==
    /\ Top = "seq_idle"
    /\ op' = "getc"
    /\ log' = <<>>
    /\ sent' = <<>>
    /\ Call("seq_ret", "getc_poll")
    /\ UNCHANGED <<regs, c, putsv, pfv, ret>>

seq_puts ==
    /\ Top = "seq_idle"
    /\ op' = "puts"
    /\ log' = <<>>
    /\ sent' = <<>>
    /\ \E str \in SeqPutsArgs : Enter_puts("seq_ret", str)
    /\ UNCHANGED <<regs, c, pfv, ret>>

seq_printf ==
    /\ Top = "seq_idle"
    /\ op' = "printf"
    /\ log' = <<>>
    /\ sent' = <<>>
    /\ \E call \in SeqPrintfCalls :
        /\ fmt' = call.f
        /\ args' = call.a
    /\ p' = 1
    /\ ap' = 0
    /\ Call("seq_ret", "pf_loop")
    /\ UNCHANGED <<regs, c, putsv, v, ret>>

\* the call has returned: its locals are gone, the registers stay
seq_ret ==
    /\ Top = "seq_ret"
    /\ Goto("seq_idle")
    /\ c' = 0
    /\ s' = NullPtr /\ si' = 1
    /\ fmt' = <<>> /\ p' = 1 /\ args' = <<>> /\ ap' = 0 /\ v' = 0
    /\ ret' = 0
    /\ UNCHANGED <<regs, op, log, sent>>

NextSeq ==
    \/ seq_init
    \/ seq_putc \/ seq_getc \/ seq_puts \/ seq_printf
    \/ seq_ret
    \/ Formatter
    \/ Driver
    \/ dbgu_getc_poll \/ dbgu_getc_rd
    \/ HwTxReady \/ HwRx

SpecSeq == InitSeq /\ [][NextSeq]_vars

\* the same caller with a processor that keeps executing the operation it is
\* in, a transmitter that finishes every character (TXRDY comes back up
\* after a store to THR) and a line on which a character arrives whenever
\* the receiver is empty.  The caller itself may stop calling.
ProgramStep == Formatter \/ Driver \/ dbgu_getc_poll \/ dbgu_getc_rd

SpecSeqFair ==
    /\ SpecSeq
    /\ WF_vars(ProgramStep)
    /\ WF_vars(HwTxReady)
    /\ WF_vars(HwRx)

(***************************************************************************)
(* utoa_hex on its own, called the two ways tiny_printf calls it: with an  *)
(* unsigned int for %x and with an unsigned long for %p.                   *)
(***************************************************************************)
HexInputs ==
    (0..MaxHexVal)
    \cup {16 ^ k : k \in 1..7} \cup {16 ^ k - 1 : k \in 1..7}
    \cup {2147483647}

InitHex ==
    /\ DBGU_CR = 0 /\ DBGU_MR = 0 /\ DBGU_SR = 0
    /\ DBGU_RHR = 0 /\ DBGU_THR = 0 /\ DBGU_BRGR = 0
    /\ stack = <<"hex_call">>
    /\ c = 0
    /\ s = NullPtr /\ si = 1
    /\ fmt = <<>> /\ p = 1 /\ ap = 0 /\ v = 0
    /\ \E n \in HexInputs : args = <<IntArg(n)>>
    /\ ret = 0
    /\ op = "none"
    /\ log = <<>>
    /\ sent = <<>>

\* unsigned int v=va_arg(ap,unsigned int); char b[9]; utoa_hex(v,b);
utoa_hex_for_x ==
    /\ Top = "hex_call"
    /\ ap' = ap + 1
    /\ v' = U32(NextArg.n)
    /\ s' = Str(utoa_hex(v'))
    /\ Goto("hex_done_x")
    /\ UNCHANGED <<regs, c, si, fmt, p, args, ret, op, log, sent>>

\* unsigned long v=(unsigned long)(uintptr_t)pv;
\* char b[2*sizeof(unsigned long)+1]; utoa_hex(v,b);
utoa_hex_for_p ==
    /\ Top = "hex_call"
    /\ ap' = ap + 1
    /\ v' = U32(NextArg.n)
    /\ s' = Str(utoa_hex(v'))
    /\ Goto("hex_done_p")
    /\ UNCHANGED <<regs, c, si, fmt, p, args, ret, op, log, sent>>

NextHex == utoa_hex_for_x \/ utoa_hex_for_p

SpecHex == InitHex /\ [][NextHex]_vars

(***************************************************************************)
(* Properties.                                                             *)
(***************************************************************************)
IsPrefix(a, b) == Len(a) <= Len(b) /\ a = SubSeq(b, 1, Len(a))

IsWrite(e, r) == e.k = "W" /\ e.r = r
IsRead(e, r) == e.k = "R" /\ e.r = r

\* the bytes written to THR, in order
ThrWrites(l) ==
    LET w == SelectSeq(l, LAMBDA e : IsWrite(e, "THR"))
    IN  [i \in 1..Len(w) |-> w[i].x]

\* the values read from RHR, in order
RhrReads(l) ==
    LET r == SelectSeq(l, LAMBDA e : IsRead(e, "RHR"))
    IN  [i \in 1..Len(r) |-> r[i].x]

\* entry i of the log is a status read that returned the given bit set
PollSaw(l, i, bit) ==
    /\ i >= 1 /\ i <= Len(l)
    /\ IsRead(l[i], "SR")
    /\ (l[i].x \div bit) % 2 = 1

TxrdySet == (DBGU_SR \div 2) % 2 = 1
RxrdySet == DBGU_SR % 2 = 1

InitLabels == {"init_rst", "init_mr", "init_brgr", "init_en"}
PutcLabels == {"putc_entry", "putc_poll_cr", "putc_wr_cr", "putc_poll", "putc_wr"}
GetcLabels == {"getc_poll", "getc_rd"}

\* dbgu_init has been called and has returned
InitDone == stack[1] # "start" /\ Top \notin InitLabels
\* the caller's operation has returned
Done == Top = "done"

\* the register accesses the description of dbgu_init lists
C1_InitWrites ==
    <<Wr("CR", 12), Wr("MR", 4 * 512), Wr("BRGR", MCK \div (16 * BAUD)), Wr("CR", 80)>>

\* C1: dbgu_init makes exactly four register accesses, all writes, in this
\* order: CR := RSTRX|RSTTX (12, one write), MR := 4<<9, BRGR := MCK/(16*BAUD),
\* CR := RXEN|TXEN (80).  At every point of dbgu_init the accesses made so
\* far are the matching prefix of that list, and on return they are the list.
C1_InitSequence ==
    /\ Top = "start" => log = <<>>
    /\ Top = "init_rst" => log = <<>>
    /\ Top = "init_mr" => log = SubSeq(C1_InitWrites, 1, 1)
    /\ Top = "init_brgr" => log = SubSeq(C1_InitWrites, 1, 2)
    /\ Top = "init_en" => log = SubSeq(C1_InitWrites, 1, 3)
    /\ Top = "ready" => log = C1_InitWrites

C1_Witness == Top = "ready" /\ Len(log) = 4 /\ DBGU_SR # 0

\* C2: once dbgu_init has returned (MCK = 60000000, BAUD = 115200), BRGR
\* holds 32, MR holds 2048 and the value last written to CR is 0x50.
C2_InitValues ==
    (InitDone /\ MCK = 60000000 /\ BAUD = 115200) =>
        /\ DBGU_BRGR = 32
        /\ DBGU_MR = 2048
        /\ DBGU_CR = 80
        /\ op = "none" => log[Len(log)] = Wr("CR", 80)

C2_Witness == InitDone /\ op = "none" /\ DBGU_BRGR = 32

\* a step that stores to THR
ThrWriteStep ==
    /\ Len(log') = Len(log) + 1
    /\ IsWrite(log'[Len(log')], "THR")

\* C3: every step that writes THR is taken with TXRDY set in the status
\* register, and the access just before it is a status read that returned
\* TXRDY set (so no other THR write lies between that read and the write).
C3_TxOnlyWhenReady ==
    [][ThrWriteStep => (TxrdySet /\ PollSaw(log, Len(log), 2))]_vars

C3_Witness == Len(ThrWrites(log)) >= 2 /\ ~TxrdySet

\* the bytes dbgu_putc(c) is to write
C4_Expected == IF c = 10 THEN <<13, 10>> ELSE <<c>>

\* C4: dbgu_putc('\n') writes exactly the bytes 13, 10 to THR and each write
\* directly follows its own status read with TXRDY set: while TXRDY is down
\* after the 13, the driver is in the second wait.  dbgu_putc(c) for any
\* other c writes exactly the byte c.
C4_NewlineIsCrLf ==
    op = "putc" =>
        /\ IsPrefix(ThrWrites(log), C4_Expected)
        /\ Done => ThrWrites(log) = C4_Expected
        /\ (c = 10 /\ ThrWrites(log) = <<13>> /\ ~TxrdySet) => Top = "putc_poll"
        /\ (Done /\ c = 10) =>
              /\ Len(log) = 4
              /\ PollSaw(log, 1, 2) /\ log[2] = Wr("THR", 13)
              /\ PollSaw(log, 3, 2) /\ log[4] = Wr("THR", 10)
        /\ (Done /\ c # 10) =>
              /\ Len(log) = 2
              /\ PollSaw(log, 1, 2) /\ log[2] = Wr("THR", c)

C4_Witness == op = "putc" /\ Done /\ c = 10 /\ Len(log) = 4

\* C5: dbgu_getc writes no register, reads RHR exactly once, directly after
\* a status read with RXRDY set, and returns the value read modulo 256.
C5_GetcReadsOnce ==
    op = "getc" =>
        /\ \A i \in 1..Len(log) : log[i].k = "R"
        /\ Len(RhrReads(log)) <= 1
        /\ Done =>
              /\ Len(log) = 2
              /\ PollSaw(log, 1, 1)
              /\ IsRead(log[2], "RHR")
              /\ ret = log[2].x % 256
              /\ ret \in 0..255

C5_Witness == op = "getc" /\ Done /\ log[2].x = 321 /\ ret = 65

\* nothing transmitted and no dbgu_putc left; nothing received and no
\* dbgu_getc left
C6_PutcStuck == ThrWrites(log) = <<>> /\ (sent # <<>> => Top \in PutcLabels)
C6_GetcStuck == RhrReads(log) = <<>> /\ (op = "getc" => Top \in GetcLabels)

\* C6: the waits have no exit but the ready bit.  In a behaviour where TXRDY
\* is never set, THR is never written and a dbgu_putc that has been entered
\* is never left; in a behaviour where RXRDY is never set, RHR is never read
\* and a dbgu_getc that has been entered is never left.
C6_WaitsHaveNoTimeout ==
    /\ ([]~TxrdySet) => []C6_PutcStuck
    /\ ([]~RxrdySet) => []C6_GetcStuck

C6_Witness ==
    /\ Top = "putc_poll" /\ ~TxrdySet
    /\ log = <<Rd("SR", 0)>>

\* the bytes on THR for a sequence of characters given to dbgu_putc
RECURSIVE C7_Stream(_)
C7_Stream(chars) ==
    IF chars = <<>> THEN <<>>
    ELSE (IF Head(chars) = 10 THEN <<13, 10>> ELSE <<Head(chars)>>)
         \o C7_Stream(Tail(chars))

\* C7: dbgu_puts(NULL) makes no register access and passes nothing to
\* dbgu_putc; dbgu_puts(s) passes the characters of s to dbgu_putc in string
\* order, so the bytes written to THR are the concatenation, in order, of
\* what dbgu_putc writes for each character (13, 10 for a newline).
C7_PutsInOrder ==
    op = "puts" =>
        /\ s.null => (log = <<>> /\ sent = <<>>)
        /\ ~s.null =>
              /\ IsPrefix(sent, s.chars)
              /\ IsPrefix(ThrWrites(log), C7_Stream(s.chars))
              /\ ThrWrites(log) = C7_Stream(sent) \/ Top \in PutcLabels
              /\ Done => (sent = s.chars /\ ThrWrites(log) = C7_Stream(s.chars))

C7_Witness ==
    /\ op = "puts" /\ Done /\ ~s.null
    /\ Len(s.chars) = 2 /\ s.chars[1] = 10
    /\ ThrWrites(log) = C7_Stream(s.chars)

\* no '%' in x
Plain(x) == \A i \in 1..Len(x) : x[i] # 37

\* the text a %s argument stands for
C8_Body(a) == IF a.str.null THEN <<40, 110, 117, 108, 108, 41>> ELSE a.str.chars

\* C8: for a format with ordinary text around a single %s, tiny_printf emits
\* the six characters "(null)" for the directive when the argument is null
\* and every character of the argument, in order, when it is not; it
\* consumes exactly one argument.
C8_StringDirective ==
    (op = "printf" /\ Done) =>
        \A k \in 1..(Len(fmt) - 1) :
            LET pre == SubSeq(fmt, 1, k - 1)
                post == SubSeq(fmt, k + 2, Len(fmt))
            IN  (fmt[k] = 37 /\ fmt[k + 1] = 115 /\ Plain(pre) /\ Plain(post)) =>
                    /\ ap = 1
                    /\ sent = pre \o C8_Body(args[1]) \o post
                    /\ ThrWrites(log) = C7_Stream(sent)

C8_Witness ==
    /\ op = "printf" /\ Done
    /\ fmt = <<37, 115>> /\ args[1].str.null
    /\ Len(sent) = 6

\* formats of ordinary characters and %% pairs, and their text
RECURSIVE C9_OnlyPairs(_)
C9_OnlyPairs(f) ==
    IF f = <<>> THEN TRUE
    ELSE IF Head(f) # 37 THEN C9_OnlyPairs(Tail(f))
    ELSE Len(f) >= 2 /\ f[2] = 37 /\ C9_OnlyPairs(Tail(Tail(f)))

RECURSIVE C9_Collapsed(_)
C9_Collapsed(f) ==
    IF f = <<>> THEN <<>>
    ELSE IF Head(f) # 37 THEN <<Head(f)>> \o C9_Collapsed(Tail(f))
    ELSE <<37>> \o C9_Collapsed(Tail(Tail(f)))

\* C9: for a format made only of ordinary characters and %% pairs,
\* tiny_printf emits each ordinary character as it is and one '%' for each
\* pair, in order, and consumes no argument; "100%%" gives "100%".
C9_LiteralText ==
    (op = "printf" /\ C9_OnlyPairs(fmt)) =>
        /\ ap = 0
        /\ IsPrefix(sent, C9_Collapsed(fmt))
        /\ Done => sent = C9_Collapsed(fmt)
        /\ (Done /\ fmt = <<49, 48, 48, 37, 37>>) =>
              (sent = <<49, 48, 48, 37>> /\ ThrWrites(log) = <<49, 48, 48, 37>>)

C9_Witness ==
    /\ op = "printf" /\ Done
    /\ fmt = <<49, 48, 48, 37, 37>> /\ Len(sent) = 4

\* lowercase hexadecimal, most significant digit first
C10_Digit(n) == IF n < 10 THEN 48 + n ELSE 97 + (n - 10)

RECURSIVE C10_Hex(_)
C10_Hex(n) ==
    IF n < 16 THEN <<C10_Digit(n)>>
    ELSE C10_Hex(n \div 16) \o <<C10_Digit(n % 16)>>

\* C10: %x emits its argument in lowercase hexadecimal, most significant
\* digit first, no prefix, no leading zero; %p emits "0x" and then the same
\* rendering; 0 is "0": %x of 0 is "0", %x of 255 is "ff", %p of 0 is "0x0".
C10_HexDirectives ==
    (op = "printf" /\ Done) =>
        /\ fmt = <<37, 120>> =>
              /\ sent = C10_Hex(args[1].n)
              /\ ThrWrites(log) = sent
              /\ (sent[1] = 48) => (args[1].n = 0 /\ sent = <<48>>)
              /\ args[1].n = 0 => sent = <<48>>
              /\ args[1].n = 255 => sent = <<102, 102>>
        /\ fmt = <<37, 112>> =>
              /\ sent = <<48, 120>> \o C10_Hex(args[1].n)
              /\ ThrWrites(log) = sent
              /\ args[1].n = 0 => sent = <<48, 120, 48>>

C10_Witness ==
    /\ op = "printf" /\ Done
    /\ fmt = <<37, 120>> /\ args[1].n = 255
    /\ sent = <<102, 102>>

\* utoa_hex has returned
HexDone == Top \in {"hex_done_x", "hex_done_p"}

\* the value of a hexadecimal digit character, -1 for any other character
C11_DigitValue(ch) ==
    IF ch >= 48 /\ ch <= 57 THEN ch - 48
    ELSE IF ch >= 97 /\ ch <= 102 THEN ch - 87
    ELSE -1

\* a digit string read as base 16, most significant digit first
RECURSIVE C11_Parse(_)
C11_Parse(ds) ==
    IF ds = <<>> THEN 0
    ELSE 16 * C11_Parse(SubSeq(ds, 1, Len(ds) - 1)) + C11_DigitValue(ds[Len(ds)])

\* C11: the digit string utoa_hex produces for v, read back as base 16 most
\* significant digit first, is v; its first digit is '0' only for v = 0,
\* and then the string is exactly "0".
C11_HexRoundTrip ==
    HexDone =>
        /\ Len(s.chars) >= 1 /\ Len(s.chars) <= 8
        /\ \A i \in 1..Len(s.chars) : C11_DigitValue(s.chars[i]) >= 0
        /\ C11_Parse(s.chars) = v
        /\ s.chars[1] = 48 => (v = 0 /\ s.chars = <<48>>)
        /\ v = 0 => s.chars = <<48>>

C11_Witness == HexDone /\ v = 2147483647 /\ s.chars = <<55, 102, 102, 102, 102, 102, 102, 102>>

\* C20: utoa_hex stays inside its buffers: the digits staged in tmp are at
\* most 8 (32 bits, four per digit) and at most the 2*sizeof(unsigned long)
\* entries of tmp, and the digits and terminator written to the caller's
\* buffer fit the 9 entries of %x and the 2*sizeof(unsigned long)+1 of %p.
C20_HexBuffersFit ==
    HexDone =>
        /\ Len(utoa_tmp(v)) <= 8
        /\ Len(utoa_tmp(v)) <= 2 * SIZEOF_ULONG
        /\ Len(utoa_tmp(v)) <= TMP_SIZE
        /\ Len(s.chars) <= IF v = 0 THEN 1 ELSE Len(utoa_tmp(v))
        /\ Top = "hex_done_x" => Len(s.chars) + 1 <= X_BUF_SIZE
        /\ Top = "hex_done_p" => Len(s.chars) + 1 <= P_BUF_SIZE

C20_Witness == Top = "hex_done_x" /\ Len(utoa_tmp(v)) = TMP_SIZE /\ Len(s.chars) + 1 = 9

\* C12: a '%' that ends the format makes tiny_printf emit one '%' and stop
\* with p at the terminator, consuming no argument ("abc%" gives "abc%");
\* a '%' followed by a character other than '%', 'c', 's', 'x', 'p' makes
\* it emit '%' and that character, consume no argument and go on scanning.
C12_MalformedDirectives ==
    (op = "printf" /\ Done) =>
        /\ (Len(fmt) >= 1 /\ fmt[Len(fmt)] = 37
              /\ Plain(SubSeq(fmt, 1, Len(fmt) - 1))) =>
                 (sent = fmt /\ ap = 0 /\ p = Len(fmt) + 1)
        /\ fmt = <<97, 98, 99, 37>> => ThrWrites(log) = <<97, 98, 99, 37>>
        /\ \A k \in 1..(Len(fmt) - 1) :
              (fmt[k] = 37 /\ fmt[k + 1] \notin {37, 99, 115, 120, 112}
                 /\ Plain(SubSeq(fmt, 1, k - 1))
                 /\ Plain(SubSeq(fmt, k + 2, Len(fmt)))) =>
                    (sent = fmt /\ ap = 0 /\ p = Len(fmt) + 1)

C12_Witness ==
    /\ op = "printf" /\ Done
    /\ fmt = <<97, 98, 99, 37>> /\ sent = fmt /\ p = 5

\* the number of %c, %s, %x and %p directives of a format
RECURSIVE C13_Count(_)
C13_Count(f) ==
    IF f = <<>> THEN 0
    ELSE IF Head(f) # 37 THEN C13_Count(Tail(f))
    ELSE IF Len(f) = 1 THEN 0
    ELSE (IF f[2] \in {99, 115, 120, 112} THEN 1 ELSE 0)
         + C13_Count(Tail(Tail(f)))

\* the text of a format when each directive takes the first argument not
\* yet taken
RECURSIVE C13_Render(_, _)
C13_Render(f, as) ==
    IF f = <<>> THEN <<>>
    ELSE IF Head(f) # 37 THEN <<Head(f)>> \o C13_Render(Tail(f), as)
    ELSE IF Len(f) = 1 THEN <<37>>
    ELSE LET rest == Tail(Tail(f))
         IN  CASE f[2] = 37 -> <<37>> \o C13_Render(rest, as)
               [] f[2] = 99 -> <<Head(as).n % 256>> \o C13_Render(rest, Tail(as))
               [] f[2] = 115 -> C8_Body(Head(as)) \o C13_Render(rest, Tail(as))
               [] f[2] = 120 -> C10_Hex(Head(as).n) \o C13_Render(rest, Tail(as))
               [] f[2] = 112 ->
                    <<48, 120>> \o C10_Hex(Head(as).n) \o C13_Render(rest, Tail(as))
               [] OTHER -> <<37, f[2]>> \o C13_Render(rest, as)

\* C13: tiny_printf consumes as many arguments as the format has %c, %s, %x
\* and %p directives, the k-th of them taking the k-th argument; %% pairs,
\* unknown directives and a trailing '%' take none.
C13_PositionalArguments ==
    op = "printf" =>
        /\ ap <= Len(args)
        /\ Top = "pf_loop" => ap = C13_Count(SubSeq(fmt, 1, p - 1))
        /\ IsPrefix(sent, C13_Render(fmt, args))
        /\ Done => (ap = C13_Count(fmt) /\ sent = C13_Render(fmt, args))

C13_Witness ==
    /\ op = "printf" /\ Done
    /\ fmt = <<37, 99, 37, 115, 37, 120, 37, 112>> /\ ap = 4
    /\ args[1].n = 65 /\ ~args[2].str.null /\ args[3].n = 255

\* C19: p never moves past the terminator of the format: it stays within
\* 1..Len(fmt)+1, moves one character at a time and never back, and the
\* scan ends with p at the terminator.
C19_ScanStaysInFormat ==
    /\ [](p >= 1 /\ p <= Len(fmt) + 1)
    /\ []((op = "printf" /\ Done) => p = Len(fmt) + 1)
    /\ [][p' = p \/ p' = p + 1]_vars

C19_Witness ==
    /\ op = "printf" /\ Done
    /\ fmt = <<37>> /\ p = 2 /\ sent = <<37>>

\* main has not finished dbgu_init
MainUninit == stack[1] = "main_start" \/ Top \in InitLabels

\* C14: in main dbgu_init runs exactly once and first: until it returns the
\* only register accesses are its own four writes, so its last CR write
\* precedes the first SR read, THR write and RHR read; afterwards the
\* registers hold what it wrote, dbgu_init is never entered again, and the
\* accesses of the first dbgu_puts follow the four writes in the log.
C14_InitOnceAndFirst ==
    /\ [](MainUninit => IsPrefix(log, C1_InitWrites))
    /\ [](~MainUninit => (DBGU_CR = 80 /\ DBGU_MR = 2048 /\ DBGU_BRGR = 32))
    /\ []((~MainUninit /\ op \in {"none", "puts"}) =>
            /\ IsPrefix(C1_InitWrites, log)
            /\ \A i \in 5..Len(log) : log[i].r \in {"SR", "THR"})
    /\ [][Top' \in InitLabels => (Top \in InitLabels \/ Top = "main_start")]_vars
    /\ [][stack'[1] = "main_start" => stack[1] = "main_start"]_vars

C14_Witness ==
    /\ op = "puts" /\ Top = "main_getc"
    /\ Len(log) > 4 /\ log[4] = Wr("CR", 80) /\ log[5].r = "SR"

\* the number of newline characters of a string
RECURSIVE C18_Newlines(_)
C18_Newlines(chars) ==
    IF chars = <<>> THEN 0
    ELSE (IF Head(chars) = 10 THEN 1 ELSE 0) + C18_Newlines(Tail(chars))

\* C18: dbgu_puts(s) writes Len(s) plus the number of newlines of s bytes to
\* THR, whatever precedes a newline: "\r\n" goes out as 13, 13, 10 and
\* "Ready\r\n" as the 8 bytes "Ready\r\r\n".
C18_CrBeforeEveryNewline ==
    (op = "puts" /\ Done /\ ~s.null) =>
        /\ Len(ThrWrites(log)) = Len(s.chars) + C18_Newlines(s.chars)
        /\ s.chars = <<13, 10>> => ThrWrites(log) = <<13, 13, 10>>
        /\ s.chars = <<82, 101, 97, 100, 121, 13, 10>> =>
              ThrWrites(log) = <<82, 101, 97, 100, 121, 13, 13, 10>>

C18_Witness ==
    /\ op = "puts" /\ Done
    /\ s.chars = <<82, 101, 97, 100, 121, 13, 10>>
    /\ Len(ThrWrites(log)) = 8

\* the continuing caller is past dbgu_init
SeqInitDone == stack[1] # "seq_start" /\ Top \notin InitLabels

\* C15: once dbgu_init has returned, no step of any later dbgu_putc,
\* dbgu_getc, dbgu_puts or tiny_printf call changes CR, MR or BRGR or writes
\* one of them: the three keep what dbgu_init wrote, the accesses of every
\* later call are to SR, THR and RHR only, the only register written is THR,
\* and dbgu_getc writes none.
C15_ConfigWrittenOnlyByInit ==
    /\ [][SeqInitDone =>
            /\ DBGU_CR' = DBGU_CR
            /\ DBGU_MR' = DBGU_MR
            /\ DBGU_BRGR' = DBGU_BRGR]_vars
    /\ [](SeqInitDone =>
            (DBGU_CR = 80 /\ DBGU_MR = 2048 /\ DBGU_BRGR = 32))
    /\ []((SeqInitDone /\ op # "none") =>
            \A i \in 1..Len(log) :
                /\ log[i].r \in {"SR", "THR", "RHR"}
                /\ log[i].k = "W" => (log[i].r = "THR" /\ op # "getc"))

C15_Witness ==
    /\ SeqInitDone
    /\ op = "getc" /\ Top = "seq_ret"
    /\ DBGU_THR = 10
    /\ log[Len(log)].r = "RHR"

\* C17: every newline byte written to THR comes right after a carriage
\* return byte, over the whole stream of a sequence of calls: a store of 10
\* is made only while THR still holds 13 from the store before it, and the
\* access before the store of 10 is the status poll that followed the store
\* of 13.  Within a call the bytes written are the characters given to
\* dbgu_putc (directly, as format text, by %c or from a %s string) with
\* each newline turned into 13, 10, so n newlines in a row make n pairs.
C17_NewlineAfterCr ==
    /\ [][(ThrWriteStep /\ log'[Len(log')].x = 10) =>
            /\ DBGU_THR = 13
            /\ Len(log) >= 2
            /\ log[Len(log) - 1] = Wr("THR", 13)]_vars
    /\ [](LET T == ThrWrites(log) IN
            \A i \in 1..Len(T) : T[i] = 10 => (i > 1 /\ T[i - 1] = 13))
    /\ []((Top = "seq_ret" /\ op \in {"putc", "puts", "printf"}) =>
            ThrWrites(log) = C7_Stream(sent))

C17_Witness ==
    /\ Top = "seq_ret" /\ op = "printf"
    /\ sent = <<10, 10, 10, 10>>
    /\ ThrWrites(log) = <<13, 10, 13, 10, 13, 10, 13, 10>>

\* the continuing caller is inside a call of the operation o
C16_In(o) == op = o /\ stack[1] = "seq_ret" /\ Len(stack) >= 2
\* and that call has returned
C16_Back(o) == op = o /\ Top = "seq_ret"

\* C16: with a transmitter that raises TXRDY again after every store to THR,
\* every dbgu_putc, dbgu_puts and tiny_printf call returns, and when it has,
\* every byte of its output has been written to THR; with a character that
\* eventually arrives, every dbgu_getc call returns, having read RHR once.
C16_CallsReturn ==
    /\ C16_In("putc") ~>
          (C16_Back("putc") /\ ThrWrites(log) = C7_Stream(<<c>>))
    /\ C16_In("puts") ~>
          (C16_Back("puts") /\ ThrWrites(log) = C7_Stream(s.chars))
    /\ C16_In("printf") ~>
          (C16_Back("printf")
              /\ ThrWrites(log) = C7_Stream(C13_Render(fmt, args)))
    /\ C16_In("getc") ~>
          (C16_Back("getc") /\ Len(RhrReads(log)) = 1)

C16_Witness ==
    /\ C16_Back("printf")
    /\ fmt = <<37, 115, 37, 120, 37, 112>>
    /\ ThrWrites(log) = <<40, 110, 117, 108, 108, 41, 102, 102, 48, 120, 48>>

====
